---- MODULE Spec2Model ----
(***************************************************************************)
(* sops-to-vault: import the secrets of a SOPS file into Vault KV v2 and   *)
(* rewrite the counterpart YAML file with vault references.                *)
(*                                                                         *)
(* Strings are sequences of one-character strings, so that strings.Split,  *)
(* strings.Join, strings.Contains, sort.Strings and fmt.Sprintf are        *)
(* computed character by character.  A yaml.Node is a record with the      *)
(* fields Kind, Value, Tag and Content the code reads and writes; the      *)
(* Content of a mapping alternates key node, value node, as in yaml.v3.    *)
(***************************************************************************)
EXTENDS Integers, Sequences, FiniteSets, TLC

VARIABLES
    pc,         \* position of the run
    fs,         \* the counterpart file on disk: [state, doc]
    fsops,      \* file system calls issued so far: [stat, read, write]
    vaultPath,  \* argument vaultPath of updateCounterpartFile
    sopsKeys,   \* argument sopsKeys of updateCounterpartFile
    root,       \* the parsed document tree held by updateCounterpartFile
    idx,        \* number of sopsKeys the key loop has processed
    prev,       \* root as it was before the last upsertNestedKey call
    ret,        \* (updated, err) returned by updateCounterpartFile
    flags,      \* command line and environment of a run of main
    data,       \* the decrypted, parsed SOPS document (map[string]interface{})
    flattened,  \* Flatten(data)
    keys,       \* the sorted keys of flattened
    store,      \* the writes Vault accepted, in order: [path, value]
    failedAt,   \* 0, or the 1-based index in keys of the write that failed
    out,        \* lines printed to standard output
    errmsg,     \* the message printed to standard error, "" when none
    exit,       \* exit status of the process, -1 while it runs
    content,    \* argument content of detectIndent: the raw text of a file
    indent      \* the width detectIndent returned, 0 before it has

cpvars == <<fs, fsops, vaultPath, sopsKeys, root, idx, prev, ret>>
mainvars == <<flags, data, flattened, keys, store, failedAt, out, errmsg, exit>>
txtvars == <<content, indent>>
vars == <<pc, cpvars, mainvars, txtvars>>

----------------------------------------------------------------------------
(* Bounds of the model *)

\* total number of key/value entries of a counterpart document at the start
MaxEntries == 2
\* length of the key list handed to updateCounterpartFile
MaxKeys == 2

\* keys a counterpart document is built from
DocKeys == { <<"a">>, <<"b">>, <<"a", ".", "b">> }
\* dotted keys handed to updateCounterpartFile
PatchKeys ==
    { <<"a">>, <<"a", ".", "b">>, <<"b", ".", "a">>, <<"a", ".", "a", ".", "b">> }
\* storage roots handed to updateCounterpartFile
VaultPaths == { <<"s", "/", "p">> }

----------------------------------------------------------------------------
(* Strings *)

Dot == "."

\* s[from..] , 1-based, as Go's s[from-1:]
Drop(s, n) == SubSeq(s, n + 1, Len(s))

\* strings.HasPrefix
HasPrefix(s, p) == Len(p) <= Len(s) /\ SubSeq(s, 1, Len(p)) = p

\* strings.Contains
Contains(s, sub) == \E i \in 1..(Len(s) + 1) : HasPrefix(Drop(s, i - 1), sub)

\* strings.Join(elems, sep) with a one-character separator
RECURSIVE Join(_, _)
Join(elems, sep) ==
    IF Len(elems) = 0 THEN <<>>
    ELSE IF Len(elems) = 1 THEN elems[1]
    ELSE elems[1] \o <<sep>> \o Join(Tail(elems), sep)

\* strings.Split(s, sep) with a one-character separator: always at least one
\* element, empty elements kept
RECURSIVE Split(_, _)
Split(s, sep) ==
    IF \A i \in 1..Len(s) : s[i] # sep THEN <<s>>
    ELSE LET i == CHOOSE j \in 1..Len(s) :
                      s[j] = sep /\ \A k \in 1..(j - 1) : s[k] # sep
         IN <<SubSeq(s, 1, i - 1)>> \o Split(Drop(s, i), sep)

----------------------------------------------------------------------------
(* yaml.Node *)

MappingNode == "MappingNode"
ScalarNode == "ScalarNode"
SequenceNode == "SequenceNode"

\* yaml.Style: 0 for a node in block or plain style, yaml.FlowStyle for a
\* mapping or sequence written between braces or brackets
NoStyle == 0
FlowStyle == 32

\* &yaml.Node{Kind: ScalarNode, Value: v}
NewScalar(v) ==
    [Kind |-> ScalarNode, Value |-> v, Tag |-> "", Content |-> <<>>, Style |-> NoStyle]

\* &yaml.Node{Kind: MappingNode}
NewMapping ==
    [Kind |-> MappingNode, Value |-> <<>>, Tag |-> "", Content |-> <<>>, Style |-> NoStyle]

\* nodes as yaml.Unmarshal produces them from a text in block style; a
\* mapping without entries can only be written "{}", which is flow style
ParsedScalar(v) ==
    [Kind |-> ScalarNode, Value |-> v, Tag |-> "!!str", Content |-> <<>>, Style |-> NoStyle]
ParsedMapping(pairs) ==
    [Kind |-> MappingNode, Value |-> <<>>, Tag |-> "!!map", Content |-> pairs,
     Style |-> IF Len(pairs) = 0 THEN FlowStyle ELSE NoStyle]
ParsedSequence ==
    [Kind |-> SequenceNode, Value |-> <<>>, Tag |-> "!!seq",
     Content |-> <<ParsedScalar(<<"x">>)>>, Style |-> NoStyle]

\* fmt.Sprintf("ref+vault://%s/%s#value", vaultPath, key)
RefPrefix == <<"r", "e", "f", "+", "v", "a", "u", "l", "t", ":", "/", "/">>
RefSuffix == <<"#", "v", "a", "l", "u", "e">>
VaultRef(path, key) == RefPrefix \o path \o <<"/">> \o key \o RefSuffix

----------------------------------------------------------------------------
(* upsertNestedKey, hasFlatKeys, addNestedKey (src/main.go) *)

\* number of key/value pairs of a mapping node
NPairs(node) == Len(node.Content) \div 2

\* faulty variant: the loop stops one pair short of the end
FindKey_notLast(node, key) ==
    IF \E p \in 1..(NPairs(node) - 1) : node.Content[2 * p - 1].Value = key
    THEN 2 * (CHOOSE p \in 1..(NPairs(node) - 1) :
                 /\ node.Content[2 * p - 1].Value = key
                 /\ \A q \in 1..(p - 1) : node.Content[2 * q - 1].Value # key) - 1
    ELSE 0

\* the loops "for i := 0; i < len(node.Content); i += 2" that stop at the
\* first key node whose Value is key: the 1-based position of that key node
\* in Content, 0 when the loop runs to its end
FindKey(node, key) ==
    IF \E p \in 1..NPairs(node) : node.Content[2 * p - 1].Value = key
    THEN 2 * (CHOOSE p \in 1..NPairs(node) :
                 /\ node.Content[2 * p - 1].Value = key
                 /\ \A q \in 1..(p - 1) : node.Content[2 * q - 1].Value # key) - 1
    ELSE 0

\* faulty variant: the kind and the children of the old value are kept
SetScalar_keepContent(n, value) ==
    [n EXCEPT !.Value = value, !.Tag = ""]

\* node.Content[i+1].Value = value; .Kind = ScalarNode; .Tag = ""; .Content = nil
\* (the other fields of the node, Style among them, stay as they are)
SetScalar(n, value) ==
    [n EXCEPT !.Value = value, !.Kind = ScalarNode, !.Tag = "", !.Content = <<>>]

\* the mapping with the node at position i of Content replaced
WithChild(node, i, child) == [node EXCEPT !.Content[i] = child]

\* faulty variant: the new pair is put in front of the others
AppendPair_front(node, keyNode, valueNode) ==
    [node EXCEPT !.Content = <<keyNode, valueNode>> \o node.Content]

\* node.Content = append(node.Content, key node, value node)
AppendPair(node, keyNode, valueNode) ==
    [node EXCEPT !.Content = node.Content \o <<keyNode, valueNode>>]

\* faulty variant: dotted keys are never seen
hasFlatKeys_never(node) == FALSE

\* hasFlatKeys: some key of the mapping contains "."
hasFlatKeys(node) ==
    \E p \in 1..NPairs(node) : Contains(node.Content[2 * p - 1].Value, <<Dot>>)

\* addNestedKey: append keyPath[0] with a chain of new mappings below it
RECURSIVE addNestedKey(_, _, _)
addNestedKey(node, keyPath, value) ==
    IF Len(keyPath) = 0 THEN node
    ELSE IF Len(keyPath) = 1
    THEN AppendPair(node, NewScalar(keyPath[1]), NewScalar(value))
    ELSE AppendPair(node, NewScalar(keyPath[1]),
                    addNestedKey(NewMapping, Tail(keyPath), value))

\* faulty variant: the first-segment rule is tried before the flat match
FlatMatch_afterSegment(node, keyPath) ==
    IF FindKey(node, keyPath[1]) # 0 /\ Len(keyPath) > 1 THEN 0
    ELSE FindKey(node, Join(keyPath, Dot))

\* rule 1, lines 294-305: position of the key node equal to the joined path
FlatMatch(node, keyPath) == FindKey(node, Join(keyPath, Dot))

\* rule 3, lines 328-339: no key of this level matches
NoMatch(node, keyPath, value) ==
    IF hasFlatKeys(node)
    THEN AppendPair(node, NewScalar(Join(keyPath, Dot)), NewScalar(value))
    ELSE addNestedKey(node, keyPath, value)

RECURSIVE upsertNestedKey(_, _, _)

\* faulty variant: a value that is not a mapping is replaced by a new mapping
SegmentMatch_coerce(node, i, keyPath, value) ==
    IF Len(keyPath) = 1
    THEN WithChild(node, i + 1, SetScalar(node.Content[i + 1], value))
    ELSE IF node.Content[i + 1].Kind = MappingNode
    THEN WithChild(node, i + 1,
                   upsertNestedKey(node.Content[i + 1], Tail(keyPath), value))
    ELSE WithChild(node, i + 1,
                   addNestedKey(NewMapping, Tail(keyPath), value))

\* faulty variant: a key the nested mapping does not have is added beside it
SegmentMatch_here(node, i, keyPath, value) ==
    IF Len(keyPath) = 1
    THEN WithChild(node, i + 1, SetScalar(node.Content[i + 1], value))
    ELSE IF node.Content[i + 1].Kind = MappingNode
    THEN IF FlatMatch(node.Content[i + 1], Tail(keyPath)) # 0
            \/ FindKey(node.Content[i + 1], keyPath[2]) # 0
         THEN WithChild(node, i + 1,
                        upsertNestedKey(node.Content[i + 1], Tail(keyPath), value))
         ELSE NoMatch(node, Tail(keyPath), value)
    ELSE node

\* rule 2, lines 307-326: the key node at position i equals keyPath[0]
SegmentMatch(node, i, keyPath, value) ==
    IF Len(keyPath) = 1
    THEN WithChild(node, i + 1, SetScalar(node.Content[i + 1], value))
    ELSE IF node.Content[i + 1].Kind = MappingNode
    THEN WithChild(node, i + 1,
                   upsertNestedKey(node.Content[i + 1], Tail(keyPath), value))
    ELSE node

\* upsertNestedKey(node, keyPath, value): the node after the call
upsertNestedKey(node, keyPath, value) ==
    IF node.Kind # MappingNode \/ Len(keyPath) = 0 THEN node
    ELSE LET fi == FlatMatch(node, keyPath)
             si == FindKey(node, keyPath[1])
         IN IF fi # 0
            THEN WithChild(node, fi + 1, SetScalar(node.Content[fi + 1], value))
            ELSE IF si # 0
            THEN SegmentMatch(node, si, keyPath, value)
            ELSE NoMatch(node, keyPath, value)

----------------------------------------------------------------------------
(* Go values and Flatten (src/flatten.go) *)

\* a Go value of the decrypted document: its dynamic type, its text, and for
\* a map its entries (a function from keys to values)
GoString(v) == [type |-> "string", str |-> v, m |-> <<>>]
GoInt(v) == [type |-> "int", str |-> v, m |-> <<>>]
GoBool(v) == [type |-> "bool", str |-> v, m |-> <<>>]
GoMap(f) == [type |-> "map", str |-> <<>>, m |-> f]

EmptyMap == <<>>

\* result[fullKey] = value
MapSet(result, k, v) ==
    [x \in (DOMAIN result) \cup {k} |-> IF x = k THEN v ELSE result[x]]

\* the orders in which "for key, value := range d" may visit the keys: Go
\* leaves the iteration order of a map unspecified
RangeOrders(S) ==
    { o \in [1..Cardinality(S) -> S] : \A i, j \in 1..Cardinality(S) : o[i] = o[j] => i = j }

\* flattenRecursive(d, prefix, result): the values result may have after
\* the call, one for each iteration order that leads to a different one
RECURSIVE flattenRecursive(_, _, _)
RECURSIVE flattenInOrder(_, _, _, _)
flattenInOrder(d, order, prefix, results) ==
    IF Len(order) = 0 THEN results
    ELSE LET key == order[1]
             value == d[key]
             fullKey == IF prefix # <<>> THEN prefix \o <<Dot>> \o key ELSE key
             after == IF value.type = "map"
                      THEN UNION { flattenRecursive(value.m, fullKey, r) : r \in results }
                      ELSE { MapSet(r, fullKey, value) : r \in results }
         IN flattenInOrder(d, Tail(order), prefix, after)
flattenRecursive(d, prefix, result) ==
    UNION { flattenInOrder(d, o, prefix, {result}) : o \in RangeOrders(DOMAIN d) }

\* Flatten(d): the maps the call may return
Flatten(d) == flattenRecursive(d, <<>>, EmptyMap)

----------------------------------------------------------------------------
(* sort.Strings, strconv, fmt *)

\* the ASCII characters from the space (byte 32) to "_" (byte 95) and from
\* "a" (byte 97) to "~" (byte 126); byte 96 cannot be written in a string here
AsciiLow ==
    <<" ", "!", "\"", "#", "$", "%", "&", "'", "(", ")", "*", "+", ",", "-", ".", "/",
      "0", "1", "2", "3", "4", "5", "6", "7", "8", "9", ":", ";", "<", "=", ">", "?",
      "@", "A", "B", "C", "D", "E", "F", "G", "H", "I", "J", "K", "L", "M", "N", "O",
      "P", "Q", "R", "S", "T", "U", "V", "W", "X", "Y", "Z", "[", "\\", "]", "^", "_">>
AsciiHigh ==
    <<"a", "b", "c", "d", "e", "f", "g", "h", "i", "j", "k", "l", "m", "n", "o",
      "p", "q", "r", "s", "t", "u", "v", "w", "x", "y", "z", "{", "|", "}", "~">>

\* the byte of an ASCII character
Ord(c) ==
    IF c = "\t" THEN 9
    ELSE IF c = "\n" THEN 10
    ELSE IF c = "\r" THEN 13
    ELSE IF \E i \in 1..Len(AsciiLow) : AsciiLow[i] = c
    THEN 31 + (CHOOSE i \in 1..Len(AsciiLow) : AsciiLow[i] = c)
    ELSE 96 + (CHOOSE i \in 1..Len(AsciiHigh) : AsciiHigh[i] = c)

\* a < b as Go compares strings: byte by byte, a proper prefix first
RECURSIVE StrLess(_, _)
StrLess(a, b) ==
    IF Len(b) = 0 THEN FALSE
    ELSE IF Len(a) = 0 THEN TRUE
    ELSE IF Ord(a[1]) # Ord(b[1]) THEN Ord(a[1]) < Ord(b[1])
    ELSE StrLess(Tail(a), Tail(b))

\* the keys of a map collected into a slice and sorted by sort.Strings
RECURSIVE SortStrings(_)
SortStrings(S) ==
    IF S = {} THEN <<>>
    ELSE LET x == CHOOSE y \in S : \A z \in S \ {y} : StrLess(y, z)
         IN <<x>> \o SortStrings(S \ {x})

\* %d of a non-negative int
RECURSIVE Itoa(_)
Itoa(n) ==
    LET d == <<"0", "1", "2", "3", "4", "5", "6", "7", "8", "9">>
    IN IF n < 10 THEN <<d[n + 1]>> ELSE Itoa(n \div 10) \o <<d[(n % 10) + 1]>>

\* %T of a value
TypeName(v) ==
    CASE v.type = "string" -> <<"s", "t", "r", "i", "n", "g">>
      [] v.type = "int" -> <<"i", "n", "t">>
      [] v.type = "bool" -> <<"b", "o", "o", "l">>
      [] OTHER -> <<"m", "a", "p", "[", "s", "t", "r", "i", "n", "g", "]", "i", "n", "t", "e", "r", "f", "a", "c", "e", " ", "{", "}">>

\* the lines printDryRun prints for the keys ks of data, in that order
RECURSIVE printKeys(_, _)
\* faulty variant: a string value is printed as it is
printKeys_raw(ks, d) ==
    IF Len(ks) = 0 THEN <<>>
    ELSE LET k == ks[1]
             v == d[k]
             line == IF v.type = "string"
                     THEN <<" ", " ">> \o k \o <<" ", "=", " ">> \o v.str
                     ELSE <<" ", " ">> \o k \o <<" ", "=", " ", "<">> \o TypeName(v) \o <<">">>
         IN <<line>> \o printKeys(Tail(ks), d)

printKeys(ks, d) ==
    IF Len(ks) = 0 THEN <<>>
    ELSE LET k == ks[1]
             v == d[k]
             line == IF v.type = "string"
                     THEN <<" ", " ">> \o k \o <<" ", "=", " ", "<", "s", "t", "r", "i", "n", "g", ",", " ">> \o Itoa(Len(v.str)) \o <<" ", "c", "h", "a", "r", "s", ">">>
                     ELSE <<" ", " ">> \o k \o <<" ", "=", " ", "<">> \o TypeName(v) \o <<">">>
         IN <<line>> \o printKeys(Tail(ks), d)

\* printDryRun(path, mount, data): the lines it prints
printDryRun(path, mount, d) ==
    << <<"[", "d", "r", "y", "-", "r", "u", "n", "]", " ", "W", "o", "u", "l", "d", " ", "w", "r", "i", "t", "e", " ", "t", "o", " ", "V", "a", "u", "l", "t", " ", "p", "a", "t", "h", ":", " ">> \o mount \o <<"/">> \o path,
       <<"[", "d", "r", "y", "-", "r", "u", "n", "]", " ">> \o Itoa(Cardinality(DOMAIN d)) \o <<" ", "s", "e", "c", "r", "e", "t", "s", ":">> >>
    \o printKeys(SortStrings(DOMAIN d), d)

----------------------------------------------------------------------------
(* detectIndent (src/main.go) *)

\* strings.TrimLeft(s, cutset) with a one-character cutset
RECURSIVE TrimLeft(_, _)
TrimLeft(s, cutset) ==
    IF Len(s) > 0 /\ s[1] = cutset THEN TrimLeft(Tail(s), cutset) ELSE s

\* "for _, line := range lines": the first line that is longer than what is
\* left of it without its leading spaces, and is not spaces only, gives the
\* width; 2 after the last line
RECURSIVE detectIndentLines(_)
detectIndentLines(lines) ==
    IF Len(lines) = 0 THEN 2
    ELSE LET line == lines[1]
             trimmed == TrimLeft(line, " ")
         IN IF /\ Len(trimmed) > 0
               /\ Len(trimmed) < Len(line)
               /\ Len(line) - Len(trimmed) > 0
            THEN Len(line) - Len(trimmed)
            ELSE detectIndentLines(Tail(lines))

detectIndent(text) == detectIndentLines(Split(text, "\n"))

----------------------------------------------------------------------------
(* yaml.Encoder with SetIndent(indent): the text of a tree (src/main.go) *)

\* n spaces
Spaces(n) == [i \in 1..n |-> " "]

\* the width the emitter indents by: SetIndent(w), and a width below 2 or
\* above 9 is replaced by 2
BestIndent(w) == IF w < 2 \/ w > 9 THEN 2 ELSE w

\* a scalar inside a flow collection: single-quoted when it holds one of the
\* flow indicators , ? [ ] { } or a ":", plain otherwise (the scalars of the
\* model hold no quote)
FlowScalar(v) ==
    IF \E i \in 1..Len(v) : v[i] \in {",", "?", "[", "]", "{", "}", ":"}
    THEN <<"'">> \o v \o <<"'">>
    ELSE v

\* a node in flow style, on one line: "{k: v, k: v}", "[v, v]" or a scalar;
\* inside a flow collection every node is written in flow style
RECURSIVE EncodeFlow(_)
RECURSIVE EncodeFlowFrom(_, _)
EncodeFlow(node) ==
    IF node.Kind = ScalarNode THEN FlowScalar(node.Value)
    ELSE IF node.Kind = MappingNode THEN <<"{">> \o EncodeFlowFrom(node, 1) \o <<"}">>
    ELSE <<"[">> \o EncodeFlowFrom(node, 1) \o <<"]">>

\* the children of a flow collection from position i of Content on
EncodeFlowFrom(node, i) ==
    IF i > Len(node.Content) THEN <<>>
    ELSE IF node.Kind = MappingNode
    THEN EncodeFlow(node.Content[i]) \o <<":", " ">> \o EncodeFlow(node.Content[i + 1])
         \o (IF i + 2 > Len(node.Content) THEN <<>> ELSE <<",", " ">>)
         \o EncodeFlowFrom(node, i + 2)
    ELSE EncodeFlow(node.Content[i])
         \o (IF i + 1 > Len(node.Content) THEN <<>> ELSE <<",", " ">>)
         \o EncodeFlowFrom(node, i + 1)

\* a mapping or sequence the emitter writes in flow style at top level or in
\* a block collection: its Style says so, or it is empty
InFlow(node) ==
    /\ node.Kind # ScalarNode
    /\ node.Style = FlowStyle \/ Len(node.Content) = 0

\* the items of a block sequence, one "- item" line each at column col; the
\* items of the documents of the model are plain scalars
RECURSIVE EncodeItems(_, _, _)
EncodeItems(node, i, col) ==
    IF i > Len(node.Content) THEN <<>>
    ELSE Spaces(col) \o <<"-", " ">> \o node.Content[i].Value \o <<"\n">>
         \o EncodeItems(node, i + 1, col)

\* the pairs of a block mapping from pair p on, at column col: "key: value"
\* for a scalar or a value in flow style, and "key:" with the children one
\* indentation width w further in for a block mapping or sequence
RECURSIVE EncodePairs(_, _, _, _)
EncodePairs(node, p, col, w) ==
    IF p > NPairs(node) THEN <<>>
    ELSE LET k == node.Content[2 * p - 1]
             v == node.Content[2 * p]
         IN Spaces(col) \o k.Value \o <<":">>
            \o (IF v.Kind = ScalarNode THEN <<" ">> \o v.Value \o <<"\n">>
                ELSE IF InFlow(v) THEN <<" ">> \o EncodeFlow(v) \o <<"\n">>
                ELSE IF v.Kind = MappingNode
                THEN <<"\n">> \o EncodePairs(v, 1, col + w, w)
                ELSE <<"\n">> \o EncodeItems(v, 1, col + w))
            \o EncodePairs(node, p + 1, col, w)

\* encoder.SetIndent(w); encoder.Encode(&doc); buf.String()
Encode(doc, w) ==
    IF doc.Kind = ScalarNode THEN doc.Value \o <<"\n">>
    ELSE IF InFlow(doc) THEN EncodeFlow(doc) \o <<"\n">>
    ELSE IF doc.Kind = MappingNode THEN EncodePairs(doc, 1, 0, BestIndent(w))
    ELSE EncodeItems(doc, 1, 0)

----------------------------------------------------------------------------
(* Counterpart documents and key lists the model starts from *)

\* no node: root before the file is parsed
NilNode == [Kind |-> "nil", Value |-> <<>>, Tag |-> "", Content |-> <<>>, Style |-> NoStyle]

\* values that are not mappings
Leaves == { ParsedScalar(<<"x">>), ParsedSequence }

\* the mappings with exactly n key/value entries in all, at any depth; keys of
\* one mapping may repeat, as yaml.Unmarshal into a yaml.Node lets them
RECURSIVE MapsOfSize(_)
MapsOfSize(n) ==
    IF n = 0 THEN { ParsedMapping(<<>>) }
    ELSE UNION { { ParsedMapping(<<ParsedScalar(k), v>> \o rest.Content) :
                     k \in DocKeys,
                     v \in (IF m = 0 THEN Leaves \cup MapsOfSize(0)
                                     ELSE MapsOfSize(m)),
                     rest \in MapsOfSize(n - 1 - m) } : m \in 0..(n - 1) }

DocRoots == UNION { MapsOfSize(n) : n \in 0..MaxEntries }

\* indentation widths a counterpart file is written with (a file without
\* nested lines shows none: detectIndent then says 2)
Indents == { 2, 4 }

\* a text yaml.Unmarshal fails on: a flow sequence that is not closed
BadYaml == <<"a", ":", " ", "[">>

\* a path os.Stat or os.ReadFile fails on: "missing" does not exist, "nostat"
\* makes os.Stat fail with another error (and os.ReadFile with it),
\* "unreadable" can be stat'ed but not read
NoFile(st) == [state |-> st, doc |-> NilNode, text |-> <<>>]

\* a file that is read: its text, and the document yaml.Unmarshal makes of
\* it ("badyaml": none; "empty": a document without content)
BadFile == [state |-> "badyaml", doc |-> NilNode, text |-> BadYaml]
EmptyFile == [state |-> "empty", doc |-> NilNode, text |-> <<>>]
OkFile(d, w) == [state |-> "ok", doc |-> d, text |-> Encode(d, w)]

\* what os.Stat, os.ReadFile and yaml.Unmarshal find at the counterpart path
FileStates ==
    { NoFile(st) : st \in {"missing", "nostat", "unreadable"} }
    \cup { BadFile, EmptyFile }
    \cup { OkFile(d, w) : d \in DocRoots \cup Leaves, w \in Indents }

RECURSIVE SeqsUpTo(_, _)
SeqsUpTo(S, n) ==
    IF n = 0 THEN { <<>> }
    ELSE SeqsUpTo(S, n - 1)
         \cup { Append(q, x) : q \in { r \in SeqsUpTo(S, n - 1) : Len(r) = n - 1 }, x \in S }

\* the key lists a caller hands to updateCounterpartFile, which takes them
\* in any order: the test calls it with [password, db_url], main with the
\* sorted list (WritesDone, sopsKeys' = keys). No key repeats.
KeyLists ==
    { q \in SeqsUpTo(PatchKeys, MaxKeys) : \A i, j \in 1..Len(q) : q[i] = q[j] => i = j }

\* the variables of main when updateCounterpartFile is called on its own
NoFlags ==
    [nargs |-> 2, dryRun |-> FALSE, updateCounterpart |-> TRUE,
     vaultAddr |-> <<>>, vaultToken |-> <<>>, envAddr |-> <<>>, envToken |-> <<>>]

NoRet == [done |-> FALSE, updated |-> FALSE, err |-> ""]
Return(updated, err) == [done |-> TRUE, updated |-> updated, err |-> err]

----------------------------------------------------------------------------
(* updateCounterpartFile (src/main.go) *)

\* faulty variant: a missing file is read all the same
CpMissing_readOn ==
    /\ pc = "cp_call"
    /\ fs.state = "missing"
    /\ fsops' = [fsops EXCEPT !.stat = @ + 1, !.read = @ + 1]
    /\ ret' = Return(FALSE, "reading file")
    /\ pc' = "cp_ret"
    /\ UNCHANGED <<txtvars, fs, vaultPath, sopsKeys, root, idx, prev, mainvars>>

\* os.Stat says the file does not exist: return false, nil
CpMissing ==
    /\ pc = "cp_call"
    /\ fs.state = "missing"
    /\ fsops' = [fsops EXCEPT !.stat = @ + 1]
    /\ ret' = Return(FALSE, "")
    /\ pc' = "cp_ret"
    /\ UNCHANGED <<txtvars, fs, vaultPath, sopsKeys, root, idx, prev, mainvars>>

\* os.Stat succeeds, or fails with an error that is not "does not exist",
\* and os.ReadFile fails
CpReadError ==
    /\ pc = "cp_call"
    /\ fs.state \in {"unreadable", "nostat"}
    /\ fsops' = [fsops EXCEPT !.stat = @ + 1, !.read = @ + 1]
    /\ ret' = Return(FALSE, "reading file")
    /\ pc' = "cp_ret"
    /\ UNCHANGED <<txtvars, fs, vaultPath, sopsKeys, root, idx, prev, mainvars>>

\* the file is read, its indentation detected, and yaml.Unmarshal fails
CpParseError ==
    /\ pc = "cp_call"
    /\ fs.state = "badyaml"
    /\ fsops' = [fsops EXCEPT !.stat = @ + 1, !.read = @ + 1]
    /\ content' = fs.text
    /\ indent' = detectIndent(fs.text)
    /\ ret' = Return(FALSE, "parsing YAML")
    /\ pc' = "cp_ret"
    /\ UNCHANGED <<fs, vaultPath, sopsKeys, root, idx, prev, mainvars>>

\* the document has no root, or its root is not a mapping
CpRootError ==
    /\ pc = "cp_call"
    /\ \/ fs.state = "empty"
       \/ fs.state = "ok" /\ fs.doc.Kind # MappingNode
    /\ fsops' = [fsops EXCEPT !.stat = @ + 1, !.read = @ + 1]
    /\ content' = fs.text
    /\ indent' = detectIndent(fs.text)
    /\ ret' = Return(FALSE, "expected YAML mapping at root")
    /\ pc' = "cp_ret"
    /\ UNCHANGED <<fs, vaultPath, sopsKeys, root, idx, prev, mainvars>>

\* lines 219-243: the file is read, its indentation detected, its text
\* parsed, and the root is a mapping: enter the key loop
CpLoad ==
    /\ pc = "cp_call"
    /\ fs.state = "ok" /\ fs.doc.Kind = MappingNode
    /\ fsops' = [fsops EXCEPT !.stat = @ + 1, !.read = @ + 1]
    /\ content' = fs.text
    /\ indent' = detectIndent(fs.text)
    /\ root' = fs.doc
    /\ pc' = "cp_loop"
    /\ UNCHANGED <<fs, vaultPath, sopsKeys, idx, prev, ret, mainvars>>

\* one iteration of "for _, key := range sopsKeys"
UpsertKey(tree, path, key) ==
    upsertNestedKey(tree, Split(key, Dot), VaultRef(path, key))

\* the whole loop "for _, key := range sopsKeys" on a tree: the tree after
\* the keys ks, in order
RECURSIVE UpsertAll(_, _, _)
UpsertAll(tree, path, ks) ==
    IF Len(ks) = 0 THEN tree
    ELSE UpsertAll(UpsertKey(tree, path, ks[1]), path, Tail(ks))

\* faulty variant: every key is applied to the tree as it was read from the
\* file, so no key sees what the keys before it did
CpUpsert_stale ==
    /\ pc = "cp_loop"
    /\ idx < Len(sopsKeys)
    /\ prev' = root
    /\ root' = UpsertKey(fs.doc, vaultPath, sopsKeys[idx + 1])
    /\ idx' = idx + 1
    /\ UNCHANGED <<txtvars, pc, fs, fsops, vaultPath, sopsKeys, ret, mainvars>>

\* the call of upsertNestedKey on root for the next key of the list
CpUpsert ==
    /\ pc = "cp_loop"
    /\ idx < Len(sopsKeys)
    /\ prev' = root
    /\ root' = UpsertKey(root, vaultPath, sopsKeys[idx + 1])
    /\ idx' = idx + 1
    /\ UNCHANGED <<txtvars, pc, fs, fsops, vaultPath, sopsKeys, ret, mainvars>>

\* encoder.Encode fails: return false, "marshaling YAML", nothing is written
CpEncodeError ==
    /\ pc = "cp_loop"
    /\ idx = Len(sopsKeys)
    /\ ret' = Return(FALSE, "marshaling YAML")
    /\ pc' = "cp_ret"
    /\ UNCHANGED <<txtvars, fs, fsops, vaultPath, sopsKeys, root, idx, prev, mainvars>>

\* encoder.Encode and os.WriteFile succeed: return true, nil. The file then
\* holds the text of the tree at the detected indentation.
CpWriteBack ==
    /\ pc = "cp_loop"
    /\ idx = Len(sopsKeys)
    /\ fsops' = [fsops EXCEPT !.write = @ + 1]
    /\ fs' = [state |-> "ok", doc |-> root, text |-> Encode(root, indent)]
    /\ ret' = Return(TRUE, "")
    /\ pc' = "cp_ret"
    /\ UNCHANGED <<txtvars, vaultPath, sopsKeys, root, idx, prev, mainvars>>

\* what a failed os.WriteFile of text leaves of file f: f as it was when the
\* open fails; after the open, which truncates, no byte, a part of the text
\* (here its first half), or all of it when only the close fails
AfterFailedWrite(f, tree, text) ==
    { f,
      [state |-> "empty", doc |-> NilNode, text |-> <<>>],
      [state |-> "torn", doc |-> NilNode, text |-> SubSeq(text, 1, Len(text) \div 2)],
      [state |-> "ok", doc |-> tree, text |-> text] }

\* os.WriteFile fails
CpWriteError ==
    /\ pc = "cp_loop"
    /\ idx = Len(sopsKeys)
    /\ fsops' = [fsops EXCEPT !.write = @ + 1]
    /\ fs' \in AfterFailedWrite(fs, root, Encode(root, indent))
    /\ ret' = Return(FALSE, "writing file")
    /\ pc' = "cp_ret"
    /\ UNCHANGED <<txtvars, vaultPath, sopsKeys, root, idx, prev, mainvars>>

\* a call updateCounterpartFile(path, vaultPath, sopsKeys)
PatchInit ==
    /\ pc = "cp_call"
    /\ fs \in FileStates
    /\ fsops = [stat |-> 0, read |-> 0, write |-> 0]
    /\ vaultPath \in VaultPaths
    /\ sopsKeys \in KeyLists
    /\ root = NilNode
    /\ idx = 0
    /\ prev = NilNode
    /\ ret = NoRet
    /\ flags = NoFlags
    /\ data = <<>>
    /\ flattened = <<>>
    /\ keys = <<>>
    /\ store = <<>>
    /\ failedAt = 0
    /\ out = <<>>
    /\ errmsg = ""
    /\ exit = -1
    /\ content = <<>>
    /\ indent = 0

PatchNext ==
    \/ CpMissing
    \/ CpReadError
    \/ CpParseError
    \/ CpRootError
    \/ CpLoad
    \/ CpUpsert
    \/ CpEncodeError
    \/ CpWriteBack
    \/ CpWriteError

PatchSpec == PatchInit /\ [][PatchNext]_vars

----------------------------------------------------------------------------
(* updateCounterpartFile called with keys under one parent *)

\* keys of the root entries of these documents: none is under the parent "a"
\* in flat form, one names it
ParentDocKeys == { <<"a">>, <<"b">>, <<"b", ".", "a">> }
\* values of the root entries of these documents
ParentDocValues == { ParsedScalar(<<"x">>), ParsedMapping(<<>>) }
\* the parent itself and three dotted keys under it, the second a prefix of
\* the fourth
ParentKeys ==
    { <<"a">>, <<"a", ".", "b">>, <<"a", ".", "a", ".", "b">>,
      <<"a", ".", "b", ".", "a">> }

\* the Content of a mapping with n entries
RECURSIVE ParentPairs(_)
ParentPairs(n) ==
    IF n = 0 THEN { <<>> }
    ELSE { <<ParsedScalar(k), v>> \o rest :
             k \in ParentDocKeys, v \in ParentDocValues, rest \in ParentPairs(n - 1) }

ParentRoots ==
    { ParsedMapping(pairs) : pairs \in UNION { ParentPairs(n) : n \in 0..MaxEntries } }

\* what os.Stat, os.ReadFile and yaml.Unmarshal find at the counterpart path
ParentFiles ==
    { NoFile(st) : st \in {"missing", "nostat", "unreadable"} }
    \cup { BadFile, EmptyFile }
    \cup { OkFile(d, 2) : d \in ParentRoots \cup Leaves }

\* the key lists a caller hands to updateCounterpartFile, in any order as
\* for KeyLists, the sorted lists main passes among them. No key repeats.
ParentKeyLists ==
    { q \in SeqsUpTo(ParentKeys, MaxKeys) : \A i, j \in 1..Len(q) : q[i] = q[j] => i = j }

\* a call updateCounterpartFile(path, vaultPath, sopsKeys)
ParentInit ==
    /\ pc = "cp_call"
    /\ fs \in ParentFiles
    /\ fsops = [stat |-> 0, read |-> 0, write |-> 0]
    /\ vaultPath \in VaultPaths
    /\ sopsKeys \in ParentKeyLists
    /\ root = NilNode
    /\ idx = 0
    /\ prev = NilNode
    /\ ret = NoRet
    /\ flags = NoFlags
    /\ data = <<>>
    /\ flattened = <<>>
    /\ keys = <<>>
    /\ store = <<>>
    /\ failedAt = 0
    /\ out = <<>>
    /\ errmsg = ""
    /\ exit = -1
    /\ content = <<>>
    /\ indent = 0

ParentSpec == ParentInit /\ [][PatchNext]_vars

----------------------------------------------------------------------------
(* main (src/main.go) *)

\* the arguments and flags with a single value in the model
VaultArg == <<"p">>
MountPath == <<"s", "e", "c", "r", "e", "t">>
Counterpart == <<"a", "p", "p", ".", "y", "a", "m", "l">>
\* the working directory of the run, and filepath.Abs(counterpart)
Cwd == <<"/", "w">>
absCounterpart == Cwd \o <<"/">> \o Counterpart

\* the runs of main the model starts from
FlagSets ==
    [nargs : {1, 2}, dryRun : BOOLEAN, updateCounterpart : BOOLEAN,
     vaultAddr : {<<>>, <<"h">>}, envAddr : {<<>>, <<"e">>},
     vaultToken : {<<>>}, envToken : {<<>>, <<"t">>}]

\* decrypted documents of a run
MainData ==
    { EmptyMap,
      (<<"a">> :> GoString(<<"p", "w">>)),
      (<<"a">> :> GoMap(<<"b">> :> GoString(<<"p", "w">>))) @@ (<<"b">> :> GoInt(<<"4", "2">>)),
      (<<"b">> :> GoString(<<"1">>)) @@ (<<"a">> :> GoString(<<"p", "w">>))
          @@ (<<"a", ".", "b">> :> GoBool(<<"t", "r", "u", "e">>)),
      (<<"a", ".", "b">> :> GoString(<<"1">>))
          @@ (<<"a">> :> GoMap(<<"b">> :> GoString(<<"p", "w">>))) }

\* counterpart files of a run
MainFiles ==
    { NoFile("missing"),
      NoFile("nostat"),
      NoFile("unreadable"),
      BadFile,
      OkFile(ParsedSequence, 2),
      OkFile(ParsedMapping(<<ParsedScalar(<<"a">>),
                             ParsedMapping(<<ParsedScalar(<<"b">>), ParsedScalar(<<"x">>)>>)>>), 4),
      OkFile(ParsedMapping(<<ParsedScalar(<<"a", ".", "b">>), ParsedScalar(<<"x">>)>>), 2) }

\* resolveConfig: the flag when it is set, else the environment variable
resolveConfig(flagVal, envVal) == IF flagVal # <<>> THEN flagVal ELSE envVal

addr == resolveConfig(flags.vaultAddr, flags.envAddr)
token == resolveConfig(flags.vaultToken, flags.envToken)

\* the configuration check of lines 59-69 lets the run go on
ConfigOk == flags.dryRun \/ (addr # <<>> /\ token # <<>>)

Die(msg) ==
    /\ errmsg' = msg
    /\ exit' = 1
    /\ pc' = "done"

\* flag.NArg() != 2: usage, exit 1
Usage ==
    /\ pc = "main"
    /\ flags.nargs # 2
    /\ Die("usage")
    /\ UNCHANGED <<txtvars, cpvars, flags, data, flattened, keys, store, failedAt, out>>

\* Vault address or token missing in a run that is not a dry run: exit 1
ConfigError ==
    /\ pc = "main"
    /\ flags.nargs = 2
    /\ ~ConfigOk
    /\ Die(IF addr = <<>> THEN "Vault address required" ELSE "Vault token required")
    /\ UNCHANGED <<txtvars, cpvars, flags, data, flattened, keys, store, failedAt, out>>

\* decrypt.File fails: exit 1
DecryptError ==
    /\ pc = "main"
    /\ flags.nargs = 2
    /\ ConfigOk
    /\ Die("decrypting SOPS file")
    /\ UNCHANGED <<txtvars, cpvars, flags, data, flattened, keys, store, failedAt, out>>

\* yaml.Unmarshal of the decrypted text fails: exit 1
ParseError ==
    /\ pc = "main"
    /\ flags.nargs = 2
    /\ ConfigOk
    /\ Die("parsing YAML")
    /\ UNCHANGED <<txtvars, cpvars, flags, data, flattened, keys, store, failedAt, out>>

\* the file is decrypted and parsed: flatten it and sort the keys
LoadSecrets ==
    /\ pc = "main"
    /\ flags.nargs = 2
    /\ ConfigOk
    /\ flattened' \in Flatten(data)
    /\ keys' = SortStrings(DOMAIN flattened')
    /\ pc' = "loaded"
    /\ UNCHANGED <<txtvars, cpvars, flags, data, store, failedAt, out, errmsg, exit>>

\* the lines "  k: ref+vault://fullVaultPath/k#value" of the dry run
RECURSIVE RefLines(_, _)
RefLines(ks, full) ==
    IF Len(ks) = 0 THEN <<>>
    ELSE <<<<" ", " ">> \o ks[1] \o <<":", " ">> \o VaultRef(full, ks[1])>>
         \o RefLines(Tail(ks), full)

\* what the dry run prints about the counterpart file: the references when
\* os.Stat returns no error, "does not exist" on any error of os.Stat
CounterpartPreview ==
    IF fs.state \notin {"missing", "nostat"}
    THEN <<<<"[", "d", "r", "y", "-", "r", "u", "n", "]", " ", "W", "o", "u", "l", "d", " ", "u", "p", "d", "a", "t", "e", " ">> \o Counterpart \o <<" ", "w", "i", "t", "h", " ", "v", "a", "u", "l", "t", " ", "r", "e", "f", "e", "r", "e", "n", "c", "e", "s", ":">>>>
         \o RefLines(keys, MountPath \o <<"/">> \o VaultArg)
    ELSE <<<<"[", "d", "r", "y", "-", "r", "u", "n", "]", " ", "C", "o", "u", "n", "t", "e", "r", "p", "a", "r", "t", " ", "f", "i", "l", "e", " ">> \o Counterpart \o <<" ", "d", "o", "e", "s", " ", "n", "o", "t", " ", "e", "x", "i", "s", "t", ",", " ", "s", "k", "i", "p", "p", "i", "n", "g">>>>

\* faulty variant: the dry-run branch does not return
DryRun_fallthrough ==
    /\ pc = "loaded"
    /\ flags.dryRun
    /\ out' = printDryRun(VaultArg, MountPath, flattened)
    /\ pc' = "writing"
    /\ UNCHANGED <<txtvars, cpvars, flags, data, flattened, keys, store, failedAt, errmsg, exit>>

\* the dry-run branch, lines 95-110: print and return
DryRun ==
    /\ pc = "loaded"
    /\ flags.dryRun
    /\ out' = printDryRun(VaultArg, MountPath, flattened)
              \o (IF flags.updateCounterpart THEN CounterpartPreview ELSE <<>>)
    /\ fsops' = [fsops EXCEPT !.stat = @ + (IF flags.updateCounterpart THEN 1 ELSE 0)]
    /\ exit' = 0
    /\ pc' = "done"
    /\ UNCHANGED <<txtvars, fs, vaultPath, sopsKeys, root, idx, prev, ret,
                   flags, data, flattened, keys, store, failedAt, errmsg>>

\* NewVaultClient fails: exit 1
ClientError ==
    /\ pc = "loaded"
    /\ ~flags.dryRun
    /\ Die("creating Vault client")
    /\ UNCHANGED <<txtvars, cpvars, flags, data, flattened, keys, store, failedAt, out>>

\* NewVaultClient succeeds
NewClient ==
    /\ pc = "loaded"
    /\ ~flags.dryRun
    /\ pc' = "writing"
    /\ UNCHANGED <<txtvars, cpvars, mainvars>>

\* one iteration of the write loop whose client.WriteKVv2 succeeds
WriteKey ==
    /\ pc = "writing"
    /\ Len(store) < Len(keys)
    /\ LET key == keys[Len(store) + 1]
       IN store' = Append(store, [path |-> VaultArg \o <<"/">> \o key,
                                  value |-> flattened[key]])
    /\ UNCHANGED <<txtvars, pc, cpvars, flags, data, flattened, keys, failedAt, out, errmsg, exit>>

\* faulty variant: a failed write is reported and the loop goes on
WriteFail_continue ==
    /\ pc = "writing"
    /\ Len(store) < Len(keys)
    /\ failedAt = 0
    /\ failedAt' = Len(store) + 1
    /\ errmsg' = "writing to Vault path"
    /\ LET key == keys[Len(store) + 1]
       IN store' = Append(store, [path |-> VaultArg \o <<"/">> \o key,
                                  value |-> flattened[key]])
    /\ UNCHANGED <<txtvars, pc, cpvars, flags, data, flattened, keys, out, exit>>

\* the iteration whose client.WriteKVv2 fails: exit 1
WriteFail ==
    /\ pc = "writing"
    /\ Len(store) < Len(keys)
    /\ failedAt' = Len(store) + 1
    /\ Die("writing to Vault path")
    /\ UNCHANGED <<txtvars, cpvars, flags, data, flattened, keys, store, out>>

\* after the loop, lines 127-134: report, then call updateCounterpartFile when
\* --update-counterpart is set
WritesDone ==
    /\ pc = "writing"
    /\ Len(store) = Len(keys)
    /\ out' = Append(out, <<"S", "u", "c", "c", "e", "s", "s", "f", "u", "l", "l", "y", " ", "w", "r", "o", "t", "e", " ">> \o Itoa(Cardinality(DOMAIN flattened)) \o <<" ", "s", "e", "c", "r", "e", "t", "s", " ", "t", "o", " ">>
                          \o MountPath \o <<"/">> \o VaultArg \o <<"/", "*">>)
    /\ IF flags.updateCounterpart
       THEN /\ pc' = "cp_call"
            /\ vaultPath' = MountPath \o <<"/">> \o VaultArg
            /\ sopsKeys' = keys
            /\ exit' = exit
       ELSE /\ pc' = "done"
            /\ exit' = 0
            /\ UNCHANGED <<vaultPath, sopsKeys>>
    /\ UNCHANGED <<txtvars, fs, fsops, root, idx, prev, ret,
                   flags, data, flattened, keys, store, failedAt, errmsg>>

\* lines 135-141: report what updateCounterpartFile returned; an error is a
\* warning and the run still ends with status 0
CpReport ==
    /\ pc = "cp_ret"
    /\ IF ret.err # ""
       THEN errmsg' = "Warning: failed to update counterpart file" /\ out' = out
       ELSE /\ errmsg' = errmsg
            /\ out' = Append(out,
                  IF ret.updated
                  THEN <<"U", "p", "d", "a", "t", "e", "d", " ">> \o absCounterpart \o <<" ", "w", "i", "t", "h", " ">> \o Itoa(Len(keys)) \o <<" ", "v", "a", "u", "l", "t", " ", "r", "e", "f", "e", "r", "e", "n", "c", "e", "s">>
                  ELSE <<"C", "o", "u", "n", "t", "e", "r", "p", "a", "r", "t", " ", "f", "i", "l", "e", " ">> \o absCounterpart \o <<" ", "d", "o", "e", "s", " ", "n", "o", "t", " ", "e", "x", "i", "s", "t", ",", " ", "s", "k", "i", "p", "p", "i", "n", "g">>)
    /\ exit' = 0
    /\ pc' = "done"
    /\ UNCHANGED <<txtvars, cpvars, flags, data, flattened, keys, store, failedAt>>

Init ==
    /\ pc = "main"
    /\ flags \in FlagSets
    /\ data \in MainData
    /\ fs \in MainFiles
    /\ fsops = [stat |-> 0, read |-> 0, write |-> 0]
    /\ vaultPath = <<>>
    /\ sopsKeys = <<>>
    /\ root = NilNode
    /\ idx = 0
    /\ prev = NilNode
    /\ ret = NoRet
    /\ flattened = EmptyMap
    /\ keys = <<>>
    /\ store = <<>>
    /\ failedAt = 0
    /\ out = <<>>
    /\ errmsg = ""
    /\ exit = -1
    /\ content = <<>>
    /\ indent = 0

Next ==
    \/ Usage
    \/ ConfigError
    \/ DecryptError
    \/ ParseError
    \/ LoadSecrets
    \/ DryRun
    \/ ClientError
    \/ NewClient
    \/ WriteKey
    \/ WriteFail
    \/ WritesDone
    \/ CpMissing
    \/ CpReadError
    \/ CpParseError
    \/ CpRootError
    \/ CpLoad
    \/ CpUpsert
    \/ CpEncodeError
    \/ CpWriteBack
    \/ CpWriteError
    \/ CpReport

Spec == Init /\ [][Next]_vars

----------------------------------------------------------------------------
(* Flatten called on its own *)

\* total number of entries, at all depths, of the map handed to Flatten
MaxData == 3

DataKeySeq == << <<"a">>, <<"b">>, <<"a", ".", "b">> >>
DataLeaves == { GoString(<<"p", "w">>), GoInt(<<"4", "2">>) }

\* the maps with n entries in all whose top-level keys are among ks
RECURSIVE GoMaps(_, _)
GoMaps(ks, n) ==
    IF n = 0 THEN { EmptyMap }
    ELSE IF Len(ks) = 0 THEN {}
    ELSE GoMaps(Tail(ks), n)
         \cup { MapSet(rest, ks[1], v) : v \in DataLeaves, rest \in GoMaps(Tail(ks), n - 1) }
         \cup UNION { { MapSet(rest, ks[1], GoMap(sub)) :
                          sub \in GoMaps(DataKeySeq, m),
                          rest \in GoMaps(Tail(ks), n - 1 - m) } : m \in 0..(n - 1) }

DataMaps == UNION { GoMaps(DataKeySeq, n) : n \in 0..MaxData }

FlattenCall ==
    /\ pc = "fl_call"
    /\ flattened' \in Flatten(data)
    /\ pc' = "fl_ret"
    /\ UNCHANGED <<txtvars, cpvars, flags, data, keys, store, failedAt, out, errmsg, exit>>

FlattenInit ==
    /\ pc = "fl_call"
    /\ data \in DataMaps
    /\ flattened = EmptyMap
    /\ flags = NoFlags
    /\ fs = NoFile("missing")
    /\ fsops = [stat |-> 0, read |-> 0, write |-> 0]
    /\ vaultPath = <<>>
    /\ sopsKeys = <<>>
    /\ root = NilNode
    /\ idx = 0
    /\ prev = NilNode
    /\ ret = NoRet
    /\ keys = <<>>
    /\ store = <<>>
    /\ failedAt = 0
    /\ out = <<>>
    /\ errmsg = ""
    /\ exit = -1
    /\ content = <<>>
    /\ indent = 0

FlattenNext == FlattenCall

FlattenSpec == FlattenInit /\ [][FlattenNext]_vars

----------------------------------------------------------------------------
(* detectIndent called on its own *)

\* length of the text handed to detectIndent
MaxText == 5

\* the characters of a text: space, tab, a letter, line feed
TextChars == { " ", "\t", "x", "\n" }
Texts == SeqsUpTo(TextChars, MaxText)

\* a call detectIndent(content)
DetectIndentCall ==
    /\ pc = "di_call"
    /\ indent' = detectIndent(content)
    /\ pc' = "di_ret"
    /\ UNCHANGED <<content, cpvars, mainvars>>

IndentInit ==
    /\ pc = "di_call"
    /\ content \in Texts
    /\ indent = 0
    /\ fs = NoFile("missing")
    /\ fsops = [stat |-> 0, read |-> 0, write |-> 0]
    /\ vaultPath = <<>>
    /\ sopsKeys = <<>>
    /\ root = NilNode
    /\ idx = 0
    /\ prev = NilNode
    /\ ret = NoRet
    /\ flags = NoFlags
    /\ data = <<>>
    /\ flattened = <<>>
    /\ keys = <<>>
    /\ store = <<>>
    /\ failedAt = 0
    /\ out = <<>>
    /\ errmsg = ""
    /\ exit = -1

IndentNext == DetectIndentCall

IndentSpec == IndentInit /\ [][IndentNext]_vars

----------------------------------------------------------------------------
(* Vocabulary of the properties of the key loop *)

KeyAt(n, p) == n.Content[2 * p - 1].Value
ValAt(n, p) == n.Content[2 * p]
IsMap(n) == n.Kind = MappingNode

\* the first entry of mapping n whose key is key, 0 when there is none
FirstPos(n, key) ==
    IF \E p \in 1..NPairs(n) : KeyAt(n, p) = key
    THEN CHOOSE p \in 1..NPairs(n) :
             KeyAt(n, p) = key /\ \A q \in 1..(p - 1) : KeyAt(n, q) # key
    ELSE 0

\* some key of mapping n has a "." in it
HasDotKey(n) == \E p \in 1..NPairs(n) : \E i \in 1..Len(KeyAt(n, p)) : KeyAt(n, p)[i] = Dot

\* the node reached from n through the entries at positions at[1], at[2], ...
RECURSIVE NodeAt(_, _)
NodeAt(n, at) ==
    IF Len(at) = 0 THEN n
    ELSE IF at[1] <= NPairs(n) THEN NodeAt(ValAt(n, at[1]), Tail(at))
    ELSE NilNode

\* n with the node reached through at replaced by new
RECURSIVE Put(_, _, _)
Put(n, at, new) ==
    IF Len(at) = 0 THEN new
    ELSE [n EXCEPT !.Content[2 * at[1]] = Put(ValAt(n, at[1]), Tail(at), new)]

\* number of key/value entries of a tree, at all depths
RECURSIVE SumEntries(_, _)
CountEntries(n) == IF IsMap(n) THEN SumEntries(n, NPairs(n)) ELSE 0
SumEntries(n, k) ==
    IF k = 0 THEN 0 ELSE 1 + CountEntries(ValAt(n, k)) + SumEntries(n, k - 1)

\* The level a dotted key is decided at: starting from the root with all the
\* segments, as long as no key equals the joined remaining segments and the
\* first entry named by the first remaining segment holds a mapping while more
\* segments remain, go into that mapping with the first segment dropped.
RECURSIVE Reach(_, _, _)
Reach(n, path, at) ==
    LET p == FirstPos(n, path[1]) IN
    IF /\ Len(path) > 1
       /\ FirstPos(n, Join(path, Dot)) = 0
       /\ p # 0
       /\ IsMap(ValAt(n, p))
    THEN Reach(ValAt(n, p), Tail(path), Append(at, p))
    ELSE [node |-> n, path |-> path, at |-> at]

\* a chain of single-entry mappings, one per segment, ending in scalar v
RECURSIVE Chain(_, _)
Chain(path, v) ==
    IF Len(path) = 0 THEN NewScalar(v)
    ELSE [Kind |-> MappingNode, Value |-> <<>>, Tag |-> "", Style |-> NoStyle,
          Content |-> <<NewScalar(path[1]), Chain(Tail(path), v)>>]

\* the key loop has just processed a key: prev and root are the tree before
\* and after the call for LastKey
Upserted == pc = "cp_loop" /\ idx > 0
LastKey == sopsKeys[idx]
LastPath == Split(LastKey, Dot)
LastRef == VaultRef(vaultPath, LastKey)

\* where the last key was decided: the level reached in prev (its mapping
\* node, the remaining segments path, the positions at leading to it), the
\* first entry flat keyed by the joined remaining segments and the first entry
\* seg keyed by the first remaining segment (0 when there is none)
Decided ==
    LET l == Reach(prev, LastPath, <<>>)
    IN [node |-> l.node, path |-> l.path, at |-> l.at,
        flat |-> FirstPos(l.node, Join(l.path, Dot)),
        seg |-> FirstPos(l.node, l.path[1])]

----------------------------------------------------------------------------
(* Properties of upsertNestedKey *)

\* a scalar holding ref in the place of node old: a new scalar but for the
\* Style field, which the node keeps
RefOver(old, ref) == [NewScalar(ref) EXCEPT !.Style = old.Style]

\* C1: exact flat match wins. When the mapping at the level reached has an
\* entry whose key is the remaining segments joined with ".", the call turns
\* that entry's value into a scalar holding the reference for the full dotted
\* key and changes nothing else: no entry is added, also when another entry of
\* that level is named by the first remaining segment.
C1_ExactFlatMatch ==
    Upserted =>
        LET c == Decided IN
        c.flat # 0 =>
            /\ root = Put(prev, c.at,
                          [c.node EXCEPT !.Content[2 * c.flat] = RefOver(@, LastRef)])
            /\ CountEntries(root) <= CountEntries(prev)
            /\ NPairs(root) = NPairs(prev)

\* C1 witness: a flat key of two segments is hit although an entry named by
\* the first segment stands at the same level, before it
C1_Witness ==
    /\ Upserted
    /\ LET c == Decided IN
       /\ Len(c.path) > 1
       /\ c.flat # 0
       /\ c.seg # 0
       /\ c.seg < c.flat
       /\ ValAt(NodeAt(root, c.at), c.flat).Value = LastRef

\* C2: nested update in place. When the segments of the key name a chain of
\* nested mappings ending in a leaf entry for the last segment, the call
\* replaces that entry's value by the reference scalar for the full key; every
\* other entry keeps key, value and position and the number of entries stays.
C2_Pre(c) ==
    /\ Len(c.path) = 1
    /\ Len(c.at) = Len(LastPath) - 1
    /\ c.seg # 0
    /\ ~IsMap(ValAt(c.node, c.seg))

C2_NestedInPlace ==
    Upserted =>
        LET c == Decided IN
        C2_Pre(c) =>
            /\ root = Put(prev, Append(c.at, c.seg), NewScalar(LastRef))
            /\ CountEntries(root) = CountEntries(prev)
            /\ \A k \in 0..Len(c.at) :
                  LET was == NodeAt(prev, SubSeq(c.at, 1, k))
                      now == NodeAt(root, SubSeq(c.at, 1, k))
                      on == IF k < Len(c.at) THEN c.at[k + 1] ELSE c.seg
                  IN /\ NPairs(now) = NPairs(was)
                     /\ \A p \in 1..NPairs(was) :
                           /\ KeyAt(now, p) = KeyAt(was, p)
                           /\ p # on => ValAt(now, p) = ValAt(was, p)

\* C2 witness: a leaf below the root is replaced while the tree holds more
\* entries than the chain
C2_Witness ==
    /\ Upserted
    /\ LET c == Decided IN
       /\ C2_Pre(c)
       /\ Len(c.at) >= 1
       /\ CountEntries(prev) > Len(LastPath)
       /\ NodeAt(root, Append(c.at, c.seg)) = NewScalar(LastRef)

\* C3: a new key follows the style of its siblings. When neither the joined
\* remaining segments nor the first remaining segment names an entry of the
\* level reached, one entry is appended after the existing ones, which stay as
\* they are: keyed by the joined remaining segments with the reference scalar
\* when some key of that level has a ".", else keyed by the first remaining
\* segment with a chain of single-entry mappings ending in the reference.
C3_Pre(c) == c.flat = 0 /\ c.seg = 0

C3_NewEntry(c) ==
    IF HasDotKey(c.node)
    THEN <<NewScalar(Join(c.path, Dot)), NewScalar(LastRef)>>
    ELSE <<NewScalar(c.path[1]), Chain(Tail(c.path), LastRef)>>

C3_SiblingStyle ==
    Upserted =>
        LET c == Decided IN
        C3_Pre(c) =>
            root = Put(prev, c.at,
                       [c.node EXCEPT !.Content = c.node.Content \o C3_NewEntry(c)])

\* C3 witness: a key of two segments is added flat at a level with a dotted key
C3_Witness ==
    /\ Upserted
    /\ LET c == Decided IN
       /\ C3_Pre(c)
       /\ HasDotKey(c.node)
       /\ Len(c.path) > 1
       /\ NPairs(NodeAt(root, c.at)) = NPairs(c.node) + 1

\* C4: insertion at the deepest level. When leading segments name a chain of
\* nested mappings and the remainder names nothing, the new entry goes into
\* the deepest mapping reached, not into the root or a mapping on the way, and
\* it is flat exactly when a key of that deepest mapping has a ".".
C4_Pre(c) == C3_Pre(c) /\ Len(c.at) > 0

C4_DeepestLevel ==
    Upserted =>
        LET c == Decided
            deep == NodeAt(root, c.at)
        IN
        C4_Pre(c) =>
            /\ \A k \in 0..(Len(c.at) - 1) :
                  NPairs(NodeAt(root, SubSeq(c.at, 1, k)))
                      = NPairs(NodeAt(prev, SubSeq(c.at, 1, k)))
            /\ NPairs(deep) = NPairs(c.node) + 1
            /\ SubSeq(deep.Content, 1, Len(c.node.Content)) = c.node.Content
            /\ KeyAt(deep, NPairs(deep)) =
                  (IF HasDotKey(c.node) THEN Join(c.path, Dot) ELSE c.path[1])
            /\ IsMap(ValAt(deep, NPairs(deep))) = (~HasDotKey(c.node) /\ Len(c.path) > 1)

\* C4 witness: the root has a dotted key and the deepest mapping has none, so
\* the new key is added nested inside the deepest mapping
C4_Witness ==
    /\ Upserted
    /\ LET c == Decided IN
       /\ C4_Pre(c)
       /\ HasDotKey(prev)
       /\ ~HasDotKey(c.node)
       /\ Len(c.path) > 1
       /\ IsMap(ValAt(NodeAt(root, c.at), NPairs(c.node) + 1))

\* C10: the rule-2 abort changes nothing. When no key equals the joined
\* remaining segments, an entry is named by the first remaining segment, more
\* segments remain and that entry's value is not a mapping, the call leaves
\* the tree as it was and returns no error, the loop goes on with the next
\* key, and once in the loop the function returns only after every key.
C10_Pre(c) ==
    /\ c.flat = 0
    /\ c.seg # 0
    /\ Len(c.path) > 1
    /\ ~IsMap(ValAt(c.node, c.seg))

C10_AbortKeepsTree ==
    /\ Upserted =>
          LET c == Decided IN
          C10_Pre(c) =>
              /\ root = prev
              /\ ret = NoRet
    /\ (ret.done /\ IsMap(root)) => idx = Len(sopsKeys)

\* C10 witness: the first key of two was given up on a value that is not a
\* mapping and the second one changed the tree all the same
C10_Witness ==
    /\ pc = "cp_loop"
    /\ idx = 2
    /\ fs.state = "ok"
    /\ LET p1 == Split(sopsKeys[1], Dot)
           l1 == Reach(fs.doc, p1, <<>>)
           s1 == FirstPos(l1.node, l1.path[1])
       IN /\ FirstPos(l1.node, Join(l1.path, Dot)) = 0
          /\ s1 # 0
          /\ Len(l1.path) > 1
          /\ ~IsMap(ValAt(l1.node, s1))
          /\ prev = fs.doc
          /\ root # prev

\* C9: a counterpart path that does not exist. The call returns updated =
\* false and no error, whatever the vault path and the keys, and reads,
\* parses and writes nothing: no file is created.
C9_MissingFile ==
    [][(pc = "cp_call" /\ fs.state = "missing") =>
          /\ pc' = "cp_ret"
          /\ ret' = Return(FALSE, "")
          /\ fs' = fs
          /\ fsops'.read = fsops.read
          /\ fsops'.write = fsops.write
          /\ root' = NilNode
          /\ idx' = 0]_vars

\* C9 witness: the call returned for a missing file and a non-empty key list
C9_Witness ==
    /\ pc = "cp_ret"
    /\ fs.state = "missing"
    /\ Len(sopsKeys) > 0
    /\ ret = Return(FALSE, "")
    /\ fsops = [stat |-> 1, read |-> 0, write |-> 0]

----------------------------------------------------------------------------
(* Properties of Flatten *)

\* the paths, as sequences of keys, from map d to its values that are not maps
RECURSIVE LeafPaths(_)
LeafPaths(d) ==
    UNION { IF d[k].type = "map"
            THEN { <<k>> \o p : p \in LeafPaths(d[k].m) }
            ELSE { <<k>> } : k \in DOMAIN d }

\* the value at the end of path p
RECURSIVE LeafAt(_, _)
LeafAt(d, p) == IF Len(p) = 1 THEN d[p[1]] ELSE LeafAt(d[p[1]].m, Tail(p))

\* C5: Flatten is total. Every leaf reached through map values only is in
\* the output exactly once, under the keys of its path joined with ".", the
\* output holds nothing else, and it has as many entries as there are leaves.
C5_FlattenTotal ==
    pc = "fl_ret" =>
        /\ \A p \in LeafPaths(data) :
              /\ Join(p, Dot) \in DOMAIN flattened
              /\ flattened[Join(p, Dot)] = LeafAt(data, p)
        /\ DOMAIN flattened = { Join(p, Dot) : p \in LeafPaths(data) }
        /\ Cardinality(DOMAIN flattened) = Cardinality(LeafPaths(data))

----------------------------------------------------------------------------
(* Properties of main *)

DryRunDone == pc = "done" /\ flags.dryRun /\ exit = 0

\* C6: a failed store write aborts the run. In a run that is not a dry run
\* the writes go one per flattened key in ascending key order; when the write
\* of the i-th key fails the process exits with a status that is not 0, the
\* first i-1 keys are written and stay so, no later key is tried and the
\* counterpart file is neither read nor written.
C6_StoreWriteAbort ==
    ~flags.dryRun =>
        /\ Len(store) <= Len(keys)
        /\ \A i \in 1..Len(store) :
              store[i] = [path |-> VaultArg \o <<"/">> \o keys[i],
                          value |-> flattened[keys[i]]]
        /\ \A i, j \in 1..Len(keys) : i < j => StrLess(keys[i], keys[j])
        /\ pc \in {"loaded", "writing"} => { keys[i] : i \in 1..Len(keys) } = DOMAIN flattened
        /\ failedAt # 0 =>
              /\ pc = "done"
              /\ exit > 0
              /\ Len(store) = failedAt - 1
              /\ fsops = [stat |-> 0, read |-> 0, write |-> 0]
              /\ root = NilNode

\* C6 witness: the second of three writes failed with a counterpart file
\* there and --update-counterpart set
C6_Witness ==
    /\ ~flags.dryRun
    /\ flags.updateCounterpart
    /\ fs.state = "ok"
    /\ Len(keys) = 3
    /\ failedAt = 2
    /\ Len(store) = 1
    /\ exit = 1

\* C7 as stated: the line printed for a string-valued key never contains the
\* value
C7_NeverContainsValue ==
    DryRunDone =>
        \A i \in 1..Len(keys) :
            flattened[keys[i]].type = "string"
                => ~Contains(out[2 + i], flattened[keys[i]].str)

\* the map with every value's text blanked: a string keeps its length
Masked(f) ==
    [k \in DOMAIN f |->
        [f[k] EXCEPT !.str = IF f[k].type = "string"
                             THEN [i \in 1..Len(f[k].str) |-> "*"]
                             ELSE <<>>]]

\* C7 as amended: the preview is made of the keys, the kinds and the lengths
\* alone. It is the preview of the map with every string replaced by another
\* one of the same length and every other value by another of its type; the
\* line of a string-valued key shows "string" and the length.
C7_PreviewMasksValues ==
    DryRunDone =>
        /\ Len(out) >= 2 + Len(keys)
        /\ SubSeq(out, 1, 2 + Len(keys))
              = printDryRun(VaultArg, MountPath, Masked(flattened))
        /\ \A i \in 1..Len(keys) :
              LET v == flattened[keys[i]] IN
              /\ HasPrefix(out[2 + i], <<" ", " ">> \o keys[i] \o <<" ", "=", " ", "<">>)
              /\ v.type = "string"
                    => Contains(out[2 + i], <<"<", "s", "t", "r", "i", "n", "g", ",", " ">> \o Itoa(Len(v.str)) \o <<" ", "c", "h", "a", "r", "s", ">">>)
              /\ v.type # "string"
                    => out[2 + i] = <<" ", " ">> \o keys[i] \o <<" ", "=", " ", "<">> \o TypeName(v) \o <<">">>

\* C7 witness: a dry run printed a two-character string and an int
C7_Witness ==
    /\ DryRunDone
    /\ \E i, j \in 1..Len(keys) :
          /\ flattened[keys[i]].type = "string"
          /\ Len(flattened[keys[i]].str) = 2
          /\ ~Contains(out[2 + i], flattened[keys[i]].str)
          /\ flattened[keys[j]].type = "int"

\* C8: a dry run writes nothing. With --dry-run, whatever the other flags,
\* the environment and the counterpart file, no store write is issued, the
\* counterpart file is never read into the patcher or written, no Vault
\* address or token is asked for, and the run ends with the preview printed.
C8_DryRunNoWrites ==
    flags.dryRun =>
        /\ store = <<>>
        /\ failedAt = 0
        /\ fsops.write = 0
        /\ fsops.read = 0
        /\ pc \in {"main", "loaded", "done"}
        /\ errmsg \in {"", "usage", "decrypting SOPS file", "parsing YAML"}
        /\ exit = 0 =>
              /\ pc = "done"
              /\ Len(out) >= 2
              /\ HasPrefix(out[1], <<"[", "d", "r", "y", "-", "r", "u", "n", "]", " ", "W", "o", "u", "l", "d", " ", "w", "r", "i", "t", "e", " ", "t", "o", " ", "V", "a", "u", "l", "t", " ", "p", "a", "t", "h", ":", " ">>)

\* C8 witness: a dry run with --update-counterpart, a counterpart file on disk
\* and neither address nor token ended with status 0
C8_Witness ==
    /\ DryRunDone
    /\ flags.updateCounterpart
    /\ fs.state = "ok"
    /\ addr = <<>>
    /\ token = <<>>
    /\ Len(keys) > 0
    /\ Len(out) > 2 + Len(keys)

----------------------------------------------------------------------------
(* Properties of the key loop as a whole *)

\* the key loop has processed every key: fs.doc is the tree the loop started
\* from and root the tree it ended with
LoopDone == pc = "cp_loop" /\ idx = Len(sopsKeys)

\* the segments of the i-th key of the call
Segs(i) == Split(sopsKeys[i], Dot)

\* the keys of the call with at least two segments and first segment s
KeysUnder(s) == { i \in 1..Len(sopsKeys) : Len(Segs(i)) > 1 /\ Segs(i)[1] = s }

\* first segments that two or more dotted keys of the call share and that
\* name no entry of the tree the loop started from
NewSharedParents ==
    { s \in { Segs(i)[1] : i \in 1..Len(sopsKeys) } :
        /\ Cardinality(KeysUnder(s)) >= 2
        /\ FirstPos(fs.doc, s) = 0 }

\* number of entries of mapping n keyed key
CountKey(n, key) == Cardinality({ p \in 1..NPairs(n) : KeyAt(n, p) = key })

\* the node reached from n by one entry per segment of path
RECURSIVE Follow(_, _)
Follow(n, path) ==
    IF Len(path) = 0 THEN n
    ELSE IF IsMap(n) /\ FirstPos(n, path[1]) # 0
    THEN Follow(ValAt(n, FirstPos(n, path[1])), Tail(path))
    ELSE NilNode

\* the segments of key i are the first segments of key j, which has more
PrefixOf(i, j) ==
    /\ Len(Segs(i)) < Len(Segs(j))
    /\ SubSeq(Segs(j), 1, Len(Segs(i))) = Segs(i)

\* one entry for parent segment s in the root, a mapping, with the reference
\* of every key under s at the end of that key's path
OneParentWithLeaves(s) ==
    /\ CountKey(root, s) = 1
    /\ IsMap(ValAt(root, FirstPos(root, s)))
    /\ \A i \in KeysUnder(s) :
          Follow(root, Segs(i)) = NewScalar(VaultRef(vaultPath, sopsKeys[i]))

\* no key of the call is a prefix, segment by segment, of another
NoPrefixKeys == \A i, j \in 1..Len(sopsKeys) : ~PrefixOf(i, j)

\* the root has an entry keyed by the whole i-th key of the call that holds
\* the reference of that key
FlatEntry(i) ==
    \E p \in 1..NPairs(root) :
        /\ KeyAt(root, p) = sopsKeys[i]
        /\ ValAt(root, p).Kind = ScalarNode
        /\ ValAt(root, p).Value = VaultRef(vaultPath, sopsKeys[i])

\* C11 as stated, for the calls most favourable to it, those without a key
\* that is a prefix of another: whenever two or more dotted keys of one call
\* share a first segment that named no entry of the document, the root has,
\* after the call, exactly one entry for that segment, a mapping holding the
\* leaves of all of them. (Refuted on a root with a dotted key: for the
\* document {"b.a": x} and the keys a.a.b, a.b both keys are appended flat
\* and no entry "a" is made.)
C11_SharedParentAnyStyle ==
    (LoopDone /\ NoPrefixKeys) => \A s \in NewSharedParents : OneParentWithLeaves(s)

\* C11, amended. For every first segment that two or more dotted keys of the
\* call share and that named no entry of the root: the root never has two
\* entries for it. When no key of the call is a prefix of another, then on a
\* root without a dotted key the later keys land in the mapping made for the
\* first (one entry for the segment, a mapping with every leaf at the end of
\* its path), and on a root with a dotted key no entry for the segment is
\* made and every one of these keys has a root entry under its whole name
\* that holds its reference.
C11_SharedNewParent ==
    LoopDone =>
        \A s \in NewSharedParents :
            /\ CountKey(root, s) <= 1
            /\ (NoPrefixKeys /\ ~HasDotKey(fs.doc)) => OneParentWithLeaves(s)
            /\ (NoPrefixKeys /\ HasDotKey(fs.doc)) =>
                  /\ CountKey(root, s) = 0
                  /\ \A i \in KeysUnder(s) : FlatEntry(i)

\* the amended statement without its condition on prefixes among the keys.
\* (Refuted: for the empty document and the keys a.b, a.b.a the second key
\* meets the leaf of the first and is dropped; with the keys in the other
\* order the first key's mapping is overwritten by the second one's leaf.)
C11_SharedNewParentAnyKeys ==
    LoopDone =>
        \A s \in NewSharedParents :
            ~HasDotKey(fs.doc) => OneParentWithLeaves(s)

\* C11 witness: two keys under a parent the document did not have, neither a
\* prefix of the other, went into one new mapping, which holds two entries
C11_Witness ==
    /\ LoopDone
    /\ ~HasDotKey(fs.doc)
    /\ NoPrefixKeys
    /\ \E s \in NewSharedParents :
          /\ \E i, j \in KeysUnder(s) : sopsKeys[i] # sopsKeys[j]
          /\ OneParentWithLeaves(s)
          /\ NPairs(ValAt(root, FirstPos(root, s))) = 2
          /\ NPairs(root) = NPairs(fs.doc) + 1

\* the keys of every mapping of the tree are pairwise distinct
RECURSIVE UniqueKeys(_)
UniqueKeys(n) ==
    IsMap(n) =>
        /\ \A p, q \in 1..NPairs(n) : KeyAt(n, p) = KeyAt(n, q) => p = q
        /\ \A p \in 1..NPairs(n) : UniqueKeys(ValAt(n, p))

\* every mapping of old that is still a mapping in new has its entries of
\* old, under their keys and in their order, before any other entry
RECURSIVE OrderKept(_, _)
OrderKept(old, new) ==
    (IsMap(old) /\ IsMap(new)) =>
        /\ NPairs(new) >= NPairs(old)
        /\ \A p \in 1..NPairs(old) :
              /\ KeyAt(new, p) = KeyAt(old, p)
              /\ OrderKept(ValAt(old, p), ValAt(new, p))

\* C13: keys stay unique and entries stay in order. When every mapping of
\* the document has pairwise distinct keys, then after any number of keys of
\* the call, in any order and also when one is a prefix of another, every
\* mapping of the tree, new ones included, has pairwise distinct keys, and
\* every mapping that is still there has its old entries in their old order
\* (new entries come after them).
C13_UniqueKeysOrderKept ==
    (pc = "cp_loop" /\ UniqueKeys(fs.doc)) =>
        /\ UniqueKeys(root)
        /\ OrderKept(fs.doc, root)

\* C13 witness: a document of two entries with distinct keys got a new entry
\* from two keys, the second a prefix of the first
C13_Witness ==
    /\ LoopDone
    /\ Len(sopsKeys) = 2
    /\ PrefixOf(2, 1)
    /\ UniqueKeys(fs.doc)
    /\ CountEntries(fs.doc) = 2
    /\ NPairs(root) = NPairs(fs.doc) + 1
    /\ UniqueKeys(root)

\* C14: the key loop is idempotent. For every document, vault path and key
\* list, running the loop again with the same arguments on the tree the
\* first run left gives that tree back: the second pass adds, removes,
\* reorders and changes nothing.
C14_PatchIdempotent ==
    LoopDone => UpsertAll(root, vaultPath, sopsKeys) = root

\* C14 witness: a first pass of two different keys that changed the tree and
\* added entries, and a second pass that changed nothing
C14_Witness ==
    /\ LoopDone
    /\ Len(sopsKeys) = 2
    /\ sopsKeys[1] # sopsKeys[2]
    /\ root = UpsertAll(fs.doc, vaultPath, sopsKeys)
    /\ CountEntries(root) > CountEntries(fs.doc) + 1
    /\ UpsertAll(root, vaultPath, sopsKeys) = root

----------------------------------------------------------------------------
(* Properties of detectIndent *)

\* the lines of the text detectIndent was called on
TextLines == Split(content, "\n")

\* number of characters of line before its first character outside set S
LeadingIn(line, S) ==
    CHOOSE n \in 0..Len(line) :
        /\ \A i \in 1..n : line[i] \in S
        /\ n = Len(line) \/ line[n + 1] \notin S

LeadingSpaces(line) == LeadingIn(line, {" "})
LeadingWhitespace(line) == LeadingIn(line, {" ", "\t"})

\* the line starts with one or more spaces or tabs and has a character that
\* is neither
WhitespaceIndented(line) ==
    LeadingWhitespace(line) > 0 /\ LeadingWhitespace(line) < Len(line)

\* the first line of the text that Q holds of, 0 when there is none
FirstLine(Q(_)) ==
    IF \E i \in 1..Len(TextLines) : Q(TextLines[i])
    THEN CHOOSE i \in 1..Len(TextLines) :
             Q(TextLines[i]) /\ \A j \in 1..(i - 1) : ~Q(TextLines[j])
    ELSE 0

\* C12 as stated: the result is the width of the first line, top to bottom,
\* with leading whitespace before content that is not whitespace, 2 when
\* there is no such line, and at least 1. The width is the number of leading
\* spaces; where the line has leading tabs the formula also admits the number
\* of leading spaces and tabs (section 4.2 of the specification: a leading
\* tab counts as one character of indentation). The code does neither: it
\* trims spaces only, so it passes over a line that starts with a tab ("\tx"
\* gives the default 2) and takes a tab after the leading spaces for content
\* (a line of one space and one tab gives 1, though it has no content).
C12_FirstWhitespaceIndentedLine ==
    pc = "di_ret" =>
        LET i == FirstLine(WhitespaceIndented) IN
        /\ IF i = 0 THEN indent = 2
           ELSE indent \in { LeadingSpaces(TextLines[i]), LeadingWhitespace(TextLines[i]) }
        /\ indent >= 1

====
